---- MODULE Spec2Model ----
(***************************************************************************)
(* The assistant bot of goit-pycore-hw-07: the command loop (main.py), the *)
(* command handlers (handlers.py) and the contact core they call           *)
(* (Record / AddressBook, modelled from the written specification).        *)
(***************************************************************************)
EXTENDS Integers, Sequences, FiniteSets, TLC

VARIABLES
    book,        \* AddressBook.data: entries in insertion order, <<[key, rec]>>
    pc,          \* where main() is: "reading", "exited", "crashed"
    user_input,  \* the line read by the last iteration of the loop
    response,    \* the response printed by the last iteration
    clock,       \* the current date read by the last command (NoDate: none read)
    uncaught     \* the exception that left main(), NoExc if none

vars == <<book, pc, user_input, response, clock, uncaught>>

\* -------------------------------------------------------------- bounds
\* Most phone entries one contact holds during a run.
MaxPhones == 2

\* -------------------------------------------------------------- text
\* A line is a sequence of chunks: words and runs of white space.
Space == " "

\* The characters of the words the runs use.
Chars(s) ==
    CASE s = "1234567890" -> <<"1","2","3","4","5","6","7","8","9","0">>
      [] s = "0987654321" -> <<"0","9","8","7","6","5","4","3","2","1">>
      [] s = "12345"      -> <<"1","2","3","4","5">>
      [] s = "12345abcde" -> <<"1","2","3","4","5","a","b","c","d","e">>
      [] s = "15.03.1990" -> <<"1","5",".","0","3",".","1","9","9","0">>
      [] s = "01.01.2000" -> <<"0","1",".","0","1",".","2","0","0","0">>
      [] s = "31.04.1990" -> <<"3","1",".","0","4",".","1","9","9","0">>
      [] s = "1990-03-15" -> <<"1","9","9","0","-","0","3","-","1","5">>
      [] s = "Anna"       -> <<"A","n","n","a">>
      [] s = "Bob"        -> <<"B","o","b">>
      [] OTHER            -> <<>>

DigitChars == <<"0","1","2","3","4","5","6","7","8","9">>

IsDigit(c) == \E i \in 1..10 : DigitChars[i] = c

DigitVal(c) == (CHOOSE i \in 1..10 : DigitChars[i] = c) - 1

\* Code-point order of the letters the names use.
Alphabet == <<"A","B","a","b","n","o">>

CharRank(c) == CHOOSE i \in 1..Len(Alphabet) : Alphabet[i] = c

\* a < b for two character sequences, lexicographically.
RECURSIVE LexLess(_, _)
LexLess(a, b) ==
    IF b = <<>> THEN FALSE
    ELSE IF a = <<>> THEN TRUE
    ELSE IF CharRank(Head(a)) # CharRank(Head(b)) THEN CharRank(Head(a)) < CharRank(Head(b))
    ELSE LexLess(Tail(a), Tail(b))

\* str.lower() on the command words the runs use.
Lower(s) ==
    CASE s = "EXIT" -> "exit"
      [] s = "Add"  -> "add"
      [] OTHER      -> s

\* str.split(): the words of a line, white space dropped.
split(line) == SelectSeq(line, LAMBDA c : c # Space)

\* -------------------------------------------------------------- exceptions
NoExc == [cls |-> "none", msg |-> ""]

ValueError(m) == [cls |-> "ValueError", msg |-> m]

\* The Python classes of the core's failures: the core reports them as
\* ValueError carrying the kind of failure as its message.
FormatError == [cls |-> "ValueError", msg |-> "FormatError"]
NotFoundError == [cls |-> "ValueError", msg |-> "NotFoundError"]
ConflictError == [cls |-> "ValueError", msg |-> "ConflictError"]

\* -------------------------------------------------------------- dates
NoDate == [y |-> 0, m |-> 0, d |-> 0]

Date(y, m, d) == [y |-> y, m |-> m, d |-> d]

IsLeap(y) == (y % 4 = 0) /\ ((y % 100 # 0) \/ (y % 400 = 0))

DaysInMonth(y, m) ==
    IF m = 2 THEN (IF IsLeap(y) THEN 29 ELSE 28)
    ELSE IF m \in {4, 6, 9, 11} THEN 30 ELSE 31

RECURSIVE DaysBeforeMonth(_, _)
DaysBeforeMonth(y, m) ==
    IF m = 1 THEN 0 ELSE DaysBeforeMonth(y, m - 1) + DaysInMonth(y, m - 1)

DaysBeforeYear(y) ==
    365 * (y - 1) + ((y - 1) \div 4) - ((y - 1) \div 100) + ((y - 1) \div 400)

\* date.toordinal()
Ordinal(dt) == DaysBeforeYear(dt.y) + DaysBeforeMonth(dt.y, dt.m) + dt.d

\* date.weekday(): Monday is 0, Sunday is 6.
Weekday(dt) == (Ordinal(dt) + 6) % 7

NextDay(dt) ==
    IF dt.d < DaysInMonth(dt.y, dt.m) THEN Date(dt.y, dt.m, dt.d + 1)
    ELSE IF dt.m < 12 THEN Date(dt.y, dt.m + 1, 1)
    ELSE Date(dt.y + 1, 1, 1)

RECURSIVE AddDays(_, _)
AddDays(dt, n) == IF n = 0 THEN dt ELSE AddDays(NextDay(dt), n - 1)

\* -------------------------------------------------------------- Contact
PhoneDigits == 10

\* The phone format rule: exactly PhoneDigits decimal digits.
ValidPhone(value) ==
    LET cs == Chars(value)
    IN  Len(cs) = PhoneDigits /\ \A i \in 1..Len(cs) : IsDigit(cs[i])

\* The birthday format rule: DD.MM.YYYY naming a date of the calendar.
ParseBirthday(text) ==
    LET cs == Chars(text)
        shape == /\ Len(cs) = 10
                 /\ cs[3] = "." /\ cs[6] = "."
                 /\ \A i \in {1, 2, 4, 5, 7, 8, 9, 10} : IsDigit(cs[i])
        d == 10 * DigitVal(cs[1]) + DigitVal(cs[2])
        m == 10 * DigitVal(cs[4]) + DigitVal(cs[5])
        y == 1000 * DigitVal(cs[7]) + 100 * DigitVal(cs[8])
                + 10 * DigitVal(cs[9]) + DigitVal(cs[10])
    IN  IF shape /\ y >= 1 /\ m \in 1..12 /\ d >= 1 /\ d <= DaysInMonth(y, m)
        THEN Date(y, m, d)
        ELSE NoDate

Record(name) == [name |-> name, phones |-> <<>>, birthday |-> NoDate]

\* Index of the first entry equal to value, 0 if there is none.
find_phone(rec, value) ==
    IF \E i \in 1..Len(rec.phones) : rec.phones[i] = value
    THEN CHOOSE i \in 1..Len(rec.phones) :
            /\ rec.phones[i] = value
            /\ \A j \in 1..(i - 1) : rec.phones[j] # value
    ELSE 0

add_phone(rec, value) ==
    IF ~ValidPhone(value) THEN [rec |-> rec, exc |-> FormatError]
    ELSE [rec |-> [rec EXCEPT !.phones = Append(@, value)], exc |-> NoExc]

edit_phone(rec, old_value, new_value) ==
    IF ~ValidPhone(new_value) THEN [rec |-> rec, exc |-> FormatError]
    ELSE IF find_phone(rec, old_value) = 0 THEN [rec |-> rec, exc |-> NotFoundError]
    ELSE [rec |-> [rec EXCEPT !.phones[find_phone(rec, old_value)] = new_value],
          exc |-> NoExc]

remove_phone(rec, value) ==
    LET i == find_phone(rec, value)
    IN  IF i = 0 THEN [rec |-> rec, exc |-> NotFoundError]
        ELSE [rec |-> [rec EXCEPT !.phones =
                          SubSeq(@, 1, i - 1) \o SubSeq(@, i + 1, Len(@))],
              exc |-> NoExc]

Record_add_birthday(rec, text) ==
    IF ParseBirthday(text) = NoDate THEN [rec |-> rec, exc |-> FormatError]
    ELSE [rec |-> [rec EXCEPT !.birthday = ParseBirthday(text)], exc |-> NoExc]

\* -------------------------------------------------------------- Directory
\* Index of the entry keyed by name, 0 if there is none.
find(bk, name) ==
    IF \E i \in 1..Len(bk) : bk[i].key = name
    THEN CHOOSE i \in 1..Len(bk) : bk[i].key = name
    ELSE 0

add_record(bk, rec) ==
    IF find(bk, rec.name) # 0 THEN [book |-> bk, exc |-> ConflictError]
    ELSE [book |-> Append(bk, [key |-> rec.name, rec |-> rec]), exc |-> NoExc]

WindowDays == 7

\* This year's occurrence of the birthday's month and day, next year's if
\* this year's is before today.
Occurrence(birthday, today) ==
    LET this == Date(today.y, birthday.m, birthday.d)
    IN  IF Ordinal(this) < Ordinal(today)
        THEN Date(today.y + 1, birthday.m, birthday.d)
        ELSE this

\* The weekend policy: Saturday and Sunday move to the following Monday.
CongratulationDate(occ) ==
    IF Weekday(occ) = 5 THEN AddDays(occ, 2)
    ELSE IF Weekday(occ) = 6 THEN AddDays(occ, 1)
    ELSE occ

Upcoming(rec, today) ==
    /\ rec.birthday # NoDate
    /\ Ordinal(Occurrence(rec.birthday, today)) - Ordinal(today) \in 0..WindowDays

\* Ascending by congratulation date, ties by name.
Before(a, b) ==
    \/ Ordinal(a.congratulation_date) < Ordinal(b.congratulation_date)
    \/ /\ a.congratulation_date = b.congratulation_date
       /\ LexLess(Chars(a.name), Chars(b.name))

RECURSIVE Insert(_, _)
Insert(sorted, x) ==
    IF sorted = <<>> THEN <<x>>
    ELSE IF Before(x, Head(sorted)) THEN <<x>> \o sorted
    ELSE <<Head(sorted)>> \o Insert(Tail(sorted), x)

RECURSIVE SortUpcoming(_)
SortUpcoming(items) ==
    IF items = <<>> THEN <<>>
    ELSE Insert(SortUpcoming(SubSeq(items, 1, Len(items) - 1)), items[Len(items)])

get_upcoming_birthdays(bk, today) ==
    LET hits == SelectSeq(bk, LAMBDA e : Upcoming(e.rec, today))
        item(e) == [name |-> e.rec.name,
                    phones |-> e.rec.phones,
                    birthday |-> e.rec.birthday,
                    congratulation_date |->
                        CongratulationDate(Occurrence(e.rec.birthday, today))]
    IN  SortUpcoming([i \in 1..Len(hits) |-> item(hits[i])])

\* -------------------------------------------------------------- handlers
\* What a handler hands back: the book as it left it, the text it returns,
\* or the exception that leaves it.
Text(t) == [text |-> t, data |-> <<>>]

\* Nothing printed: the iteration ended in a traceback.
NoResponse == Text("")

Return(bk, ret) == [book |-> bk, ret |-> ret, exc |-> NoExc]

Raise(bk, e) == [book |-> bk, ret |-> Text(""), exc |-> e]

\* One rendered contact of a response.
Shown(name, phones, date) == [name |-> name, phones |-> phones, date |-> date]

\* The decorator: KeyError, ValueError and IndexError become the response.
input_error(r) ==
    IF r.exc.cls \in {"KeyError", "ValueError", "IndexError"}
    THEN Return(r.book, Text(r.exc.msg))
    ELSE r

\* rec holds an entry equal to phone.
Holds(rec, phone) == \E i \in 1..Len(rec.phones) : rec.phones[i] = phone

\* add_contact without the look for the phone among the contact's phones.
add_contact_no_duplicate_check(args, bk) ==
    IF Len(args) < 2
    THEN Raise(bk, ValueError("Error: Give me name and phone please."))
    ELSE
      LET existing_record == find(bk, args[1])
          r  == add_phone(bk[existing_record].rec, args[2])
          r1 == add_phone(Record(args[1]), args[2])
          r2 == IF Len(args) >= 3 THEN Record_add_birthday(r1.rec, args[3]) ELSE r1
      IN  IF existing_record # 0
          THEN IF r.exc # NoExc THEN Raise(bk, r.exc)
               ELSE Return([bk EXCEPT ![existing_record].rec = r.rec], Text("Contact updated."))
          ELSE IF r1.exc # NoExc THEN Raise(bk, r1.exc)
          ELSE IF r2.exc # NoExc THEN Raise(bk, r2.exc)
          ELSE Return(add_record(bk, r2.rec).book, Text("Contact added."))

\* add_contact that builds and adds a new Record without asking find first.
add_contact_without_find(args, bk) ==
    IF Len(args) < 2
    THEN Raise(bk, ValueError("Error: Give me name and phone please."))
    ELSE
      LET r1 == add_phone(Record(args[1]), args[2])
          r2 == IF Len(args) >= 3 THEN Record_add_birthday(r1.rec, args[3]) ELSE r1
          a  == add_record(bk, r2.rec)
      IN  IF r1.exc # NoExc THEN Raise(bk, r1.exc)
          ELSE IF r2.exc # NoExc THEN Raise(bk, r2.exc)
          ELSE IF a.exc # NoExc THEN Raise(a.book, a.exc)
          ELSE Return(a.book, Text("Contact added."))

\* add_contact that adds the new Record to the book before it sets the birthday.
add_contact_insert_first(args, bk) ==
    IF Len(args) < 2
    THEN Raise(bk, ValueError("Error: Give me name and phone please."))
    ELSE
      LET existing_record == find(bk, args[1])
          r  == add_phone(bk[existing_record].rec, args[2])
          r1 == add_phone(Record(args[1]), args[2])
          a  == add_record(bk, r1.rec)
          r2 == IF Len(args) >= 3 THEN Record_add_birthday(r1.rec, args[3]) ELSE r1
      IN  IF existing_record # 0 /\ Holds(bk[existing_record].rec, args[2])
          THEN Return(bk, Text("Contact with this name and phone number already exists."))
          ELSE IF existing_record # 0
          THEN IF r.exc # NoExc THEN Raise(bk, r.exc)
               ELSE Return([bk EXCEPT ![existing_record].rec = r.rec], Text("Contact updated."))
          ELSE IF r1.exc # NoExc THEN Raise(bk, r1.exc)
          ELSE IF r2.exc # NoExc THEN Raise(a.book, r2.exc)
          ELSE Return([a.book EXCEPT ![Len(a.book)].rec = r2.rec], Text("Contact added."))

add_contact(args, bk) ==
    IF Len(args) < 2
    THEN Raise(bk, ValueError("Error: Give me name and phone please."))
    ELSE
      LET name == args[1]
          phone == args[2]
          optional_args == SubSeq(args, 3, Len(args))
          birthday == IF optional_args # <<>> THEN optional_args[1] ELSE ""
          existing_record == find(bk, name)
      IN  IF /\ existing_record # 0
             /\ \E i \in 1..Len(bk[existing_record].rec.phones) :
                    phone = bk[existing_record].rec.phones[i]
          THEN Return(bk, Text("Contact with this name and phone number already exists."))
          ELSE IF existing_record # 0
          THEN LET r == add_phone(bk[existing_record].rec, phone)
               IN  IF r.exc # NoExc THEN Raise(bk, r.exc)
                   ELSE Return([bk EXCEPT ![existing_record].rec = r.rec],
                               Text("Contact updated."))
          ELSE LET r1 == add_phone(Record(name), phone)
                   r2 == IF birthday # "" THEN Record_add_birthday(r1.rec, birthday) ELSE r1
                   a  == add_record(bk, r2.rec)
               IN  IF r1.exc # NoExc THEN Raise(bk, r1.exc)
                   ELSE IF r2.exc # NoExc THEN Raise(bk, r2.exc)
                   ELSE IF a.exc # NoExc THEN Raise(a.book, a.exc)
                   ELSE Return(a.book, Text("Contact added."))

\* change_contact that edits by removing the old phone and adding the new one.
change_contact_remove_then_add(args, bk) ==
    IF Len(args) = 3
    THEN LET record == find(bk, args[1])
             r1 == remove_phone(bk[record].rec, args[2])
             r2 == add_phone(r1.rec, args[3])
         IN  IF record # 0
             THEN IF r1.exc # NoExc THEN Raise(bk, r1.exc)
                  ELSE IF r2.exc # NoExc THEN Raise(bk, r2.exc)
                  ELSE Return([bk EXCEPT ![record].rec = r2.rec], Text("Phone number updated."))
             ELSE Return(bk, Text("Contact not found."))
    ELSE IF Len(args) = 2
    THEN LET record == find(bk, args[1])
             r == remove_phone(bk[record].rec, args[2])
         IN  IF record # 0
             THEN IF find_phone(bk[record].rec, args[2]) # 0
                  THEN Return([bk EXCEPT ![record].rec = r.rec], Text("Phone number removed."))
                  ELSE Return(bk, Text("Phone number not found in the contact."))
             ELSE Return(bk, Text("Contact not found."))
    ELSE Raise(bk, ValueError("Error: Give me name, old phone and new phone please or name and phone to remove."))

\* change_contact that answers a removal without calling remove_phone.
change_contact_remove_forgotten(args, bk) ==
    IF Len(args) = 3
    THEN LET record == find(bk, args[1])
             r == edit_phone(bk[record].rec, args[2], args[3])
         IN  IF record # 0
             THEN IF r.exc # NoExc THEN Raise(bk, r.exc)
                  ELSE Return([bk EXCEPT ![record].rec = r.rec], Text("Phone number updated."))
             ELSE Return(bk, Text("Contact not found."))
    ELSE IF Len(args) = 2
    THEN LET record == find(bk, args[1])
         IN  IF record # 0
             THEN IF find_phone(bk[record].rec, args[2]) # 0
                  THEN Return(bk, Text("Phone number removed."))
                  ELSE Return(bk, Text("Phone number not found in the contact."))
             ELSE Return(bk, Text("Contact not found."))
    ELSE Raise(bk, ValueError("Error: Give me name, old phone and new phone please or name and phone to remove."))

change_contact(args, bk) ==
    IF Len(args) = 3
    THEN LET record == find(bk, args[1])
             r == edit_phone(bk[record].rec, args[2], args[3])
         IN  IF record # 0
             THEN IF r.exc # NoExc THEN Raise(bk, r.exc)
                  ELSE Return([bk EXCEPT ![record].rec = r.rec], Text("Phone number updated."))
             ELSE Return(bk, Text("Contact not found."))
    ELSE IF Len(args) = 2
    THEN LET record == find(bk, args[1])
             r == remove_phone(bk[record].rec, args[2])
         IN  IF record # 0
             THEN IF find_phone(bk[record].rec, args[2]) # 0
                  THEN IF r.exc # NoExc THEN Raise(bk, r.exc)
                       ELSE Return([bk EXCEPT ![record].rec = r.rec],
                                   Text("Phone number removed."))
                  ELSE Return(bk, Text("Phone number not found in the contact."))
             ELSE Return(bk, Text("Contact not found."))
    ELSE Raise(bk, ValueError("Error: Give me name, old phone and new phone please or name and phone to remove."))

show_phone(args, bk) ==
    IF Len(args) # 1 THEN Raise(bk, ValueError("Error: Give me name, please."))
    ELSE LET record == find(bk, args[1])
         IN  IF record # 0
             THEN Return(bk, [text |-> "{name}: {phones}",
                              data |-> <<Shown(args[1], bk[record].rec.phones, NoDate)>>])
             ELSE Return(bk, Text("Contact not found."))

show_all(bk) ==
    IF bk = <<>> THEN Return(bk, Text("The address book is empty."))
    ELSE Return(bk, [text |-> "{record}",
                     data |-> [i \in 1..Len(bk) |->
                                 Shown(bk[i].rec.name, bk[i].rec.phones, bk[i].rec.birthday)]])

add_birthday(args, bk) ==
    IF Len(args) # 2 THEN Raise(bk, ValueError("Error: Give me name and birthday please."))
    ELSE LET record == find(bk, args[1])
             r == Record_add_birthday(bk[record].rec, args[2])
         IN  IF record # 0
             THEN IF r.exc # NoExc THEN Raise(bk, r.exc)
                  ELSE Return([bk EXCEPT ![record].rec = r.rec], Text("Birthday added."))
             ELSE Return(bk, Text("Contact not found."))

show_birthday(args, bk) ==
    IF Len(args) # 1 THEN Raise(bk, ValueError("Error: Give me name, please."))
    ELSE LET record == find(bk, args[1])
         IN  IF record # 0
             THEN Return(bk, [text |-> "{name}: {record.birthday}",
                              data |-> <<Shown(args[1], <<>>, bk[record].rec.birthday)>>])
             ELSE Return(bk, Text("Contact not found."))

\* birthdays that lists every contact of the book with a birthday, not the
\* upcoming ones.
birthdays_lists_whole_book(args, bk, today) ==
    LET upcoming_birthdays == get_upcoming_birthdays(bk, today)
        with_birthday == SelectSeq(bk, LAMBDA e : e.rec.birthday # NoDate)
    IN  IF upcoming_birthdays = <<>>
        THEN Return(bk, Text("No birthdays in the next 7 days."))
        ELSE Return(bk, [text |-> "Upcoming birthday within the next week: {record.name} - {record.birthday}, Phones: {phones}",
                         data |-> [i \in 1..Len(with_birthday) |->
                                     Shown(with_birthday[i].rec.name,
                                           with_birthday[i].rec.phones,
                                           with_birthday[i].rec.birthday)]])

\* Each line of the answer shows record.name, record.birthday and the phones.
birthdays(args, bk, today) ==
    LET upcoming_birthdays == get_upcoming_birthdays(bk, today)
    IN  IF upcoming_birthdays = <<>>
        THEN Return(bk, Text("No birthdays in the next 7 days."))
        ELSE Return(bk, [text |-> "Upcoming birthday within the next week: {record.name} - {record.birthday}, Phones: {phones}",
                         data |-> [i \in 1..Len(upcoming_birthdays) |->
                                     Shown(upcoming_birthdays[i].name,
                                           upcoming_birthdays[i].phones,
                                           upcoming_birthdays[i].birthday)]])

\* -------------------------------------------------------------- main.py
ExitWords == {"close", "exit", "bye"}

handle_action(action, args, bk, today) ==
    CASE action = "hello"         -> Return(bk, Text("How can I help you?"))
      [] action = "add"           -> input_error(add_contact(args, bk))
      [] action = "change"        -> input_error(change_contact(args, bk))
      [] action = "phone"         -> input_error(show_phone(args, bk))
      [] action = "all"           -> input_error(show_all(bk))
      [] action = "add-birthday"  -> input_error(add_birthday(args, bk))
      [] action = "show-birthday" -> input_error(show_birthday(args, bk))
      [] action = "birthdays"     -> input_error(birthdays(args, bk, today))
      [] action \in ExitWords     -> Return(bk, Text("Good bye!"))
      [] OTHER                    -> Return(bk, Text("Invalid command. Available commands are: hello, add, change, phone, all, add-birthday, show-birthday, birthdays, close, exit, bye."))

parse_input(line) ==
    LET words == split(line)
    IN  IF words = <<>>
        THEN [action |-> "", args |-> <<>>,
              exc |-> ValueError("not enough values to unpack (expected at least 1, got 0)")]
        ELSE [action |-> Lower(Head(words)), args |-> Tail(words), exc |-> NoExc]

\* -------------------------------------------------------------- inputs
Names == {"Anna", "Bob"}

\* Phone words: two well-formed ones, one too short, one holding letters.
ValidPhones == {"1234567890", "0987654321"}
AddPhones == ValidPhones \cup {"12345"}
NewPhones == ValidPhones \cup {"12345abcde"}

\* Birthday words: two dates, a day April does not have, a wrong layout.
AddBirthdays == {"15.03.1990", "31.04.1990"}
BirthdayTexts == {"15.03.1990", "01.01.2000", "31.04.1990", "1990-03-15"}

\* The dates the clock shows when birthdays is asked.
Todays == {Date(2025, 3, 7), Date(2025, 3, 8), Date(2025, 3, 14), Date(2025, 3, 15),
           Date(2025, 3, 16), Date(2025, 12, 25), Date(2027, 12, 28)}

\* The typed line of some words: single spaces between them.
RECURSIVE Typed(_)
Typed(words) ==
    IF Len(words) <= 1 THEN words
    ELSE <<Head(words), Space>> \o Typed(Tail(words))

Lines ==
    { Typed(<<"add", n, p>>) : n \in Names, p \in AddPhones }
    \cup { Typed(<<"add", n, "1234567890", b>>) : n \in Names, b \in AddBirthdays }
    \cup { Typed(<<"change", n, o, p>>) : n \in Names, o \in ValidPhones, p \in NewPhones }
    \cup { Typed(<<"change", n, p>>) : n \in Names, p \in ValidPhones }
    \cup { Typed(<<"phone", n>>) : n \in Names }
    \cup { Typed(<<"add-birthday", n, b>>) : n \in Names, b \in BirthdayTexts }
    \cup { Typed(<<"show-birthday", n>>) : n \in Names }
    \cup { Typed(<<"add", "Anna">>), <<"Add">>, <<"change">>, <<"phone">>,
           <<"add-birthday">>, <<"show-birthday">>,
           <<"all">>, <<"hello">>, <<Space, "hello", Space>>, <<"birthdays">>,
           <<"close">>, <<"exit">>, <<"bye">>, <<"EXIT">>, <<"delete">>,
           <<>>, <<Space>> }

\* Lines that would grow a contact past MaxPhones are not typed.
WithinBounds(bk) ==
    \A i \in 1..Len(bk) : Len(bk[i].rec.phones) <= MaxPhones

\* -------------------------------------------------------------- the loop
Init ==
    /\ book = <<>>
    /\ pc = "reading"
    /\ user_input = <<>>
    /\ response = Text("Welcome to the assistant bot!")
    /\ clock = NoDate
    /\ uncaught = NoExc

\* One iteration of main()'s loop on the line typed, the clock showing today.
Iteration(line, today) ==
    /\ user_input' = line
    /\ \E p \in {parse_input(line)} :
          IF p.exc # NoExc
          THEN /\ pc' = "crashed"
               /\ uncaught' = p.exc
               /\ clock' = NoDate
               /\ response' = NoResponse
               /\ UNCHANGED book
          ELSE \E r \in {handle_action(p.action, p.args, book, today)} :
                  IF r.exc # NoExc
                  THEN /\ pc' = "crashed"
                       /\ uncaught' = r.exc
                       /\ book' = r.book
                       /\ clock' = NoDate
                       /\ response' = NoResponse
                  ELSE /\ WithinBounds(r.book)
                       /\ book' = r.book
                       /\ response' = r.ret
                       /\ clock' = IF p.action = "birthdays" THEN today ELSE NoDate
                       /\ uncaught' = NoExc
                       /\ pc' = IF p.action \in ExitWords THEN "exited" ELSE "reading"

\* The lines each case of handle_action's match answers.
LinesOf(actions) ==
    { line \in Lines : parse_input(line).exc = NoExc /\ parse_input(line).action \in actions }

Commands == {"hello", "add", "change", "phone", "all", "add-birthday",
             "show-birthday", "birthdays"} \cup ExitWords

HelloLines == LinesOf({"hello"})
AddLines == LinesOf({"add"})
ChangeLines == LinesOf({"change"})
PhoneLines == LinesOf({"phone"})
AllLines == LinesOf({"all"})
AddBirthdayLines == LinesOf({"add-birthday"})
ShowBirthdayLines == LinesOf({"show-birthday"})
BirthdaysLines == LinesOf({"birthdays"})
ExitLines == LinesOf(ExitWords)
InvalidLines == { line \in Lines : parse_input(line).exc = NoExc
                                   /\ parse_input(line).action \notin Commands }
BlankLines == { line \in Lines : parse_input(line).exc # NoExc }

Hello ==
    /\ pc = "reading"
    /\ \E line \in HelloLines : Iteration(line, NoDate)

Add ==
    /\ pc = "reading"
    /\ \E line \in AddLines : Iteration(line, NoDate)

Change ==
    /\ pc = "reading"
    /\ \E line \in ChangeLines : Iteration(line, NoDate)

Phone ==
    /\ pc = "reading"
    /\ \E line \in PhoneLines : Iteration(line, NoDate)

All ==
    /\ pc = "reading"
    /\ \E line \in AllLines : Iteration(line, NoDate)

AddBirthday ==
    /\ pc = "reading"
    /\ \E line \in AddBirthdayLines : Iteration(line, NoDate)

ShowBirthday ==
    /\ pc = "reading"
    /\ \E line \in ShowBirthdayLines : Iteration(line, NoDate)

Birthdays ==
    /\ pc = "reading"
    /\ \E line \in BirthdaysLines, today \in Todays : Iteration(line, today)

Exit ==
    /\ pc = "reading"
    /\ \E line \in ExitLines : Iteration(line, NoDate)

Invalid ==
    /\ pc = "reading"
    /\ \E line \in InvalidLines : Iteration(line, NoDate)

\* A line without a word: parse_input cannot unpack it.
Blank ==
    /\ pc = "reading"
    /\ \E line \in BlankLines : Iteration(line, NoDate)

Next ==
    \/ Hello
    \/ Add
    \/ Change
    \/ Phone
    \/ All
    \/ AddBirthday
    \/ ShowBirthday
    \/ Birthdays
    \/ Exit
    \/ Invalid
    \/ Blank

Spec == Init /\ [][Next]_vars

\* -------------------------------------------------------------- properties
\* The command and the arguments of the line the last iteration read.
ActionOf(line) == IF split(line) = <<>> THEN "" ELSE Lower(Head(split(line)))

ArgsOf(line) == IF split(line) = <<>> THEN <<>> ELSE Tail(split(line))

\* C1: after any sequence of commands from the empty Directory, no contact
\* holds two phone entries that are equal as strings.
C1_NoDuplicatePhones ==
    \A i \in 1..Len(book) :
        \A j, k \in 1..Len(book[i].rec.phones) :
            j # k => book[i].rec.phones[j] # book[i].rec.phones[k]

\* C3: every line the loop receives is answered with one response and no
\* exception leaves parse_input, handle_action or a handler.
C3_EveryLineAnswered ==
    /\ pc # "crashed"
    /\ uncaught = NoExc
    /\ response # NoResponse

\* C4: the loop ends only by an exit command: it has stopped exactly when the
\* last line's first word, lowercased, is close, exit or bye.
C4_EndsOnlyOnExit ==
    /\ pc # "reading" => pc = "exited" /\ ActionOf(user_input) \in ExitWords
    /\ ActionOf(user_input) \in ExitWords => pc = "exited"

\* The entry a first add of name and phone inserts, whatever its birthday.
IsNewEntry(e, name, phone) ==
    e.key = name /\ e.rec.name = name /\ e.rec.phones = <<phone>>

\* The three outcomes of add, decided by the book before the call.
AddOutcome(bk, args, bk2, resp) ==
    LET name == args[1]
        phone == args[2]
        i == find(bk, name)
    IN  /\ i = 0 =>
            /\ Len(bk2) = Len(bk) + 1
            /\ SubSeq(bk2, 1, Len(bk)) = bk
            /\ IsNewEntry(bk2[Len(bk2)], name, phone)
            /\ resp = Text("Contact added.")
        /\ (i # 0 /\ ~Holds(bk[i].rec, phone)) =>
            bk2 = [bk EXCEPT ![i].rec.phones = Append(@, phone)]
        /\ (i # 0 /\ Holds(bk[i].rec, phone)) =>
            /\ bk2 = bk
            /\ resp = Text("Contact with this name and phone number already exists.")

AddStep(line) ==
    /\ pc = "reading"
    /\ ActionOf(line) = "add"
    /\ Len(ArgsOf(line)) >= 2
    /\ ValidPhone(ArgsOf(line)[2])

BirthdayGiven(args) == Len(args) >= 3

\* C2 as written: add with a valid name and phone has exactly the three
\* outcomes, whatever else the line holds.
C2_AddThreeOutcomes ==
    [][AddStep(user_input') => AddOutcome(book, ArgsOf(user_input'), book', response')]_vars

\* C2 as amended: the three outcomes hold when the name is already present or
\* the optional birthday is absent or well-formed; a new name with a
\* malformed birthday is answered with the format error and nothing is inserted.
C2_AddOutcomesAmended ==
    [][AddStep(user_input') =>
        LET args == ArgsOf(user_input')
            fresh == find(book, args[1]) = 0
            malformed == BirthdayGiven(args) /\ ParseBirthday(args[3]) = NoDate
        IN  IF fresh /\ malformed
            THEN book' = book /\ response' = Text("FormatError")
            ELSE /\ AddOutcome(book, args, book', response')
                 /\ (fresh /\ BirthdayGiven(args) =>
                        book'[Len(book')].rec.birthday = ParseBirthday(args[3]))
                 /\ (fresh /\ ~BirthdayGiven(args) =>
                        book'[Len(book')].rec.birthday = NoDate)]_vars

\* The second outcome has happened: a phone was appended to a present contact.
C2_Witness ==
    /\ ActionOf(user_input) = "add"
    /\ response = Text("Contact updated.")
    /\ \E i \in 1..Len(book) :
          /\ book[i].key = ArgsOf(user_input)[1]
          /\ Len(book[i].rec.phones) = 2
          /\ book[i].rec.phones[2] = ArgsOf(user_input)[2]

\* Entry i of the book is as before but for its phones, the others untouched.
OnlyPhonesOf(bk, bk2, i) ==
    /\ Len(bk2) = Len(bk)
    /\ \A j \in 1..Len(bk) : j # i => bk2[j] = bk[j]
    /\ bk2[i].key = bk[i].key
    /\ bk2[i].rec.name = bk[i].rec.name
    /\ bk2[i].rec.birthday = bk[i].rec.birthday

\* A change with name, old phone and new phone on a contact of the book.
EditStep(line) ==
    /\ pc = "reading"
    /\ ActionOf(line) = "change"
    /\ Len(ArgsOf(line)) = 3
    /\ find(book, ArgsOf(line)[1]) # 0

\* The old phone is present and the new one valid: one entry, at the place
\* of the old phone, takes the new value and nothing else changes.
EditedInPlace(bk, args, bk2) ==
    LET i == find(bk, args[1])
        phones == bk[i].rec.phones
        phones2 == bk2[i].rec.phones
    IN  /\ OnlyPhonesOf(bk, bk2, i)
        /\ Len(phones2) = Len(phones)
        /\ \E k \in 1..Len(phones) :
              /\ phones[k] = args[2]
              /\ phones2[k] = args[3]
              /\ \A j \in 1..Len(phones) : j # k => phones2[j] = phones[j]

RemoveStep(line) ==
    /\ pc = "reading"
    /\ ActionOf(line) = "change"
    /\ Len(ArgsOf(line)) = 2
    /\ find(book, ArgsOf(line)[1]) # 0

\* phones2 is phones without its first entry equal to value.
FirstMatchRemoved(phones, value, phones2) ==
    \E k \in 1..Len(phones) :
        /\ phones[k] = value
        /\ \A j \in 1..(k - 1) : phones[j] # value
        /\ Len(phones2) = Len(phones) - 1
        /\ \A j \in 1..Len(phones2) :
              phones2[j] = IF j < k THEN phones[j] ELSE phones[j + 1]

C9_ConflictOnlyFromDirectoryAdd ==
    /\ \A i \in 1..Len(book) :
          \A rec \in {Record(book[i].key), book[i].rec} :
              /\ add_record(book, rec).exc = ConflictError
              /\ add_record(book, rec).book = book
    /\ response # Text("ConflictError")
    /\ \A i \in 1..Len(book) : book[i].key = book[i].rec.name
    /\ \A i, j \in 1..Len(book) : i # j => book[i].key # book[j].key

\* add was given a name the book of two contacts already holds.
C9_Witness ==
    /\ ActionOf(user_input) = "add"
    /\ Len(ArgsOf(user_input)) >= 2
    /\ find(book, ArgsOf(user_input)[1]) # 0
    /\ response \in {Text("Contact updated."),
                     Text("Contact with this name and phone number already exists.")}
    /\ Len(book) = 2

\* The texts that report an error or something not found.
ErrorTexts ==
    {"Error: Give me name and phone please.",
     "Error: Give me name, old phone and new phone please or name and phone to remove.",
     "Error: Give me name, please.",
     "Error: Give me name and birthday please.",
     "FormatError", "NotFoundError", "ConflictError",
     "Contact not found.", "Phone number not found in the contact."}

\* C10: a command answered with an error or not-found message leaves the
\* book exactly as it was.
C10_ErrorsLeaveBookUnchanged ==
    [][(pc = "reading" /\ response'.text \in ErrorTexts) => book' = book]_vars

\* add of a new name with a valid phone and a malformed birthday was refused
\* and the name is not in the book.
C10_Witness ==
    /\ ActionOf(user_input) = "add"
    /\ Len(ArgsOf(user_input)) = 3
    /\ ValidPhone(ArgsOf(user_input)[2])
    /\ ParseBirthday(ArgsOf(user_input)[3]) = NoDate
    /\ response = Text("FormatError")
    /\ find(book, ArgsOf(user_input)[1]) = 0
    /\ Len(book) = 1

\* The days from today on, today and today + WindowDays included, that fall
\* on the birthday's month and day.
DaysUntil(birthday, today) ==
    { k \in 0..WindowDays : /\ AddDays(today, k).m = birthday.m
                            /\ AddDays(today, k).d = birthday.d }

\* The date to congratulate on: the occurrence in the window, or the Monday
\* after it when it is a Saturday or a Sunday.
ExpectedCongratulation(birthday, today) ==
    LET occ == AddDays(today, CHOOSE k \in DaysUntil(birthday, today) : TRUE)
    IN  IF Weekday(occ) \in {5, 6} THEN AddDays(occ, 7 - Weekday(occ)) ELSE occ

\* The last answer names the contact.
Listed(name) == \E n \in 1..Len(response.data) : response.data[n].name = name

\* C7: for every contact the birthdays answer lists, the date reported is the
\* occurrence of the birthday, moved to the following Monday when it falls on
\* a Saturday or a Sunday, so no reported date is a Saturday or a Sunday; the
\* stored birthdays are as before the call.
C7_ReportedDateAvoidsWeekend ==
    [][(pc = "reading" /\ ActionOf(user_input') = "birthdays") =>
        /\ book' = book
        /\ \A n \in 1..Len(response'.data) :
              LET item == response'.data[n]
                  rec == book[find(book, item.name)].rec
              IN  /\ item.date = ExpectedCongratulation(rec.birthday, clock')
                  /\ Weekday(item.date) \notin {5, 6}]_vars

\* C8: the birthdays answer lists a contact exactly when it has a birthday
\* whose month and day fall on one of the days today .. today + 7, both ends
\* included, also across 31 December.
C8_ListedIffInWindow ==
    (pc = "reading" /\ ActionOf(user_input) = "birthdays") =>
        /\ \A i \in 1..Len(book) :
              Listed(book[i].rec.name) <=>
                  /\ book[i].rec.birthday # NoDate
                  /\ DaysUntil(book[i].rec.birthday, clock) # {}
        /\ Len(response.data) =
              Cardinality({ i \in 1..Len(book) : Listed(book[i].rec.name) })

\* On 25 December a contact born on 1 January, seven days ahead and in the
\* next year, is listed; one born on 15 March and one without a birthday
\* would not be.
C8_Witness ==
    /\ pc = "reading"
    /\ ActionOf(user_input) = "birthdays"
    /\ clock = Date(2025, 12, 25)
    /\ Len(book) = 2
    /\ \E i, j \in 1..2 :
          /\ book[i].rec.birthday = Date(2000, 1, 1)
          /\ Listed(book[i].rec.name)
          /\ book[j].rec.birthday = Date(1990, 3, 15)
          /\ ~Listed(book[j].rec.name)

====
